---- MODULE Spec2Model ----
(***************************************************************************)
(* Model of jupyterlab_export_markdown_extension/routes.py: the three      *)
(* export handlers (pdf, docx, html) and the content rewrites they share   *)
(* (mermaid substitution, image embedding, DOCX structural fix-ups).       *)
(*                                                                         *)
(* Text is a sequence of tokens.  A token is a string standing for one     *)
(* character or for one literal the regular expressions treat as a unit.   *)
(***************************************************************************)
EXTENDS Integers, Sequences, FiniteSets, TLC

VARIABLES
    \* ---- replace_mermaid_with_images (routes.py 35-90)
    content,            \* argument: the Markdown text
    mermaid_diagrams,   \* argument: the descriptor list
    use_png,            \* argument
    cairosvg,           \* environment: "ok" | "absent" (import cairosvg)
    diagrams_by_index,  \* local dict
    current_index,      \* local counter current_index[0]
    m_pos,              \* re.sub: scan position in content
    m_out,              \* re.sub: the result built so far
    m_calls,            \* re.sub: the callback invocations made so far
    m_pc,               \* "start" | "scan" | "done" | "raised"
    \* ---- embed_images_as_base64 (routes.py 163-204)
    e_content,          \* argument: the Markdown text
    e_fs,               \* environment: file name -> "file" | "missing" |
                        \*   "stat_error" | "unreadable"
    e_touched,          \* environment: the files stat'ed or opened so far
    e_pos,              \* re.sub: scan position
    e_out,              \* re.sub: the result built so far
    e_calls,            \* re.sub: the callback invocations made so far
    e_pc,               \* "scan" | "done" | "raised"
    \* ---- the export handlers (routes.py 399-598)
    handler,            \* "pdf" | "docx" | "html": which post() runs
    request,            \* the request: [body, path, diagrams]
    images,             \* number of inline data-URI <img> in the rendered body
    pc,                 \* position in post()
    status,             \* response status (set_status)
    headers,            \* response headers set by set_header: [ct, cd]
    body,               \* what finish() was given: [kind, value]
    finish_calls,       \* number of finish() calls
    file_reads,         \* number of times the source file was opened
    stages,             \* pipeline stages started, in order
    staged,             \* DOCX staging: <img> elements visited so far
    temp_dirs,          \* file system: existing temporary directories -> files
    temp_created,       \* number of temporary directories ever created
    \* ---- DOCX fix-ups (routes.py 509-537)
    doc_input,          \* the body elements the converter produced
    doc_body,           \* the document body, in order
    par_pc,             \* "loop" | "done": the while loop of line 510
    shapes_input,       \* the inline shapes the converter produced: [width, height]
    shapes,             \* document.inline_shapes, in EMU
    shape_i,            \* the for loop of line 519: next shape
    shp_pc,             \* "loop" | "done"
    \* ---- several requests in flight (routes.py 62-66, 483-484)
    c_req,              \* request -> [content, diagrams, handler]
    c_cells,            \* the current_index lists alive: cell -> value
    c_calls,            \* request -> callback invocations made so far
    c_pos,              \* request -> re.sub scan position
    c_out,              \* request -> the substituted Markdown built so far
    c_pc,               \* request -> position in post()
    c_dir,              \* request -> its temp_dir (0: none yet)
    c_tmp,              \* file system: existing temporary directories -> files
    c_read              \* request -> staged files the converter loaded

merVars == <<content, mermaid_diagrams, use_png, cairosvg, diagrams_by_index,
             current_index, m_pos, m_out, m_calls, m_pc>>

embVars == <<e_content, e_fs, e_touched, e_pos, e_out, e_calls, e_pc>>

hdlVars == <<handler, request, images, pc, status, headers, body, finish_calls,
             file_reads, stages, staged, temp_dirs, temp_created>>

parVars == <<doc_input, doc_body, par_pc>>

shpVars == <<shapes_input, shapes, shape_i, shp_pc>>

cncVars == <<c_req, c_cells, c_calls, c_pos, c_out, c_pc, c_dir, c_tmp, c_read>>

vars == <<merVars, embVars, hdlVars, parVars, shpVars, cncVars>>

\* the state of the other parts, which a step of one part leaves alone
notMer == <<embVars, hdlVars, parVars, shpVars, cncVars>>
notEmb == <<merVars, hdlVars, parVars, shpVars, cncVars>>
notHdl == <<merVars, embVars, parVars, shpVars, cncVars>>
notPar == <<merVars, embVars, hdlVars, shpVars, cncVars>>
notShp == <<merVars, embVars, hdlVars, parVars, cncVars>>
notCnc == <<merVars, embVars, hdlVars, parVars, shpVars>>

----------------------------------------------------------------------------
\* Generic helpers on token sequences

Slice(s, a, b) == IF a > b THEN <<>> ELSE SubSeq(s, a, b)

RECURSIVE Flatten(_)
Flatten(ss) == IF ss = <<>> THEN <<>> ELSE Head(ss) \o Flatten(Tail(ss))

\* All sequences over S of length 0..n
SeqsUpTo(S, n) == UNION {[1..k -> S] : k \in 0..n}

Min(S) == CHOOSE x \in S : \A y \in S : x <= y
Max(S) == CHOOSE x \in S : \A y \in S : x >= y

----------------------------------------------------------------------------
\* replace_mermaid_with_images: the pattern  ```mermaid\s*\n(.*?)```  (DOTALL)
\* Tokens: "F" = ``` , "M" = the literal mermaid, "n" = newline,
\*         "s" = another whitespace character, "x" = any other character.

IsWs(t) == t \in {"n", "s"}

\* end (exclusive) of the maximal whitespace run starting at i
WsRunEnd(c, i) ==
    IF \E j \in i..Len(c) : ~IsWs(c[j])
    THEN Min({j \in i..Len(c) : ~IsWs(c[j])})
    ELSE Len(c) + 1

\* The pattern anchored at i.  0 when it does not match there, otherwise the
\* index just past the match.  \s* is greedy and backtracks to the last newline
\* of the whitespace run; (.*?) is lazy and stops at the first closing fence.
MermaidMatchEnd(c, i) ==
    IF i + 1 > Len(c) \/ c[i] # "F" \/ c[i+1] # "M" THEN 0
    ELSE LET we == WsRunEnd(c, i + 2)
             nls == {j \in (i+2)..(we-1) : c[j] = "n"}
         IN IF nls = {} THEN 0
            ELSE LET bodyStart == Max(nls) + 1
                     closers == {k \in bodyStart..Len(c) : c[k] = "F"}
                 IN IF closers = {} THEN 0 ELSE Min(closers) + 1

\* re.sub's search: the leftmost match starting at or after pos (0: none)
MermaidSearch(c, pos) ==
    LET starts == {i \in pos..Len(c) : MermaidMatchEnd(c, i) # 0}
    IN IF starts = {} THEN 0 ELSE Min(starts)

----------------------------------------------------------------------------
\* Descriptors.  svg / png are strings; "" is d.get(key, '') of a missing key.

SvgPrefixed == {"data:image/svg+xml;base64,GOOD",
                "data:image/svg+xml;base64,!notb64",
                "data:image/svg+xml;base64,NOTSVG",
                "data:image/svg+xml;base64,A", "data:image/svg+xml;base64,B",
                "data:image/svg+xml;base64,C", "data:image/svg+xml;base64,D"}

\* svg_data_uri.startswith('data:image/svg+xml;base64,')
StartsWithSvgPrefix(svg) == svg \in SvgPrefixed

\* base64.b64decode raises binascii.Error on this payload
B64DecodeRaises(svg) == svg = "data:image/svg+xml;base64,!notb64"

\* cairosvg.svg2png rejects the decoded bytes
Svg2PngRaises(svg) == svg = "data:image/svg+xml;base64,NOTSVG"

\* f'data:image/png;base64,{png_base64}' of the rasterized svg
PngOf(svg) == "data:image/png;base64,raster(" \o svg \o ")"

\* svg_to_png: [exc |-> "" , val |-> uri] on return, [exc |-> class] on raise
svg_to_png(svg, cairo) ==
    IF cairo = "absent" THEN [exc |-> "ImportError", val |-> ""]
    ELSE IF ~StartsWithSvgPrefix(svg) THEN [exc |-> "ValueError", val |-> ""]
    ELSE IF B64DecodeRaises(svg) THEN [exc |-> "binascii.Error", val |-> ""]
    ELSE IF Svg2PngRaises(svg) THEN [exc |-> "RasterizerError", val |-> ""]
    ELSE [exc |-> "", val |-> PngOf(svg)]

\* a handler that names one class only: `except ValueError`
CaughtByExceptValueError(exc) == exc \in {"ValueError", "binascii.Error"}

\* `except Exception` (line 81): every class raised above derives from Exception
CaughtByExceptException(exc) ==
    exc \in {"ImportError", "ValueError", "binascii.Error", "RasterizerError"}

\* f'![Mermaid Diagram]({uri})'
MermaidImage(uri) == <<"![Mermaid Diagram](", uri, ")">>

\* a lookup keyed by list position (enumerate) instead of d['index']
BuildByListPosition(ds, acc) ==
    [i \in 0..(Len(ds) - 1) |-> [svg |-> ds[i+1].svg, png |-> ds[i+1].png]]

\* the loop of lines 55-60: later entries overwrite earlier ones
RECURSIVE BuildDiagramsByIndex(_, _)
BuildDiagramsByIndex(ds, acc) ==
    IF ds = <<>> THEN acc
    ELSE LET d == Head(ds)
             e == [svg |-> d.svg, png |-> d.png]
         IN BuildDiagramsByIndex(Tail(ds),
                [i \in DOMAIN acc \cup {d.index} |->
                    IF i = d.index THEN e ELSE acc[i]])

EmptyDict == [i \in {} |-> [svg |-> "", png |-> ""]]

\* the counter update of line 66
NextIndex(idx) == idx + 1

\* replace_mermaid with the raster preference dropped: the svg is converted
\* even when the descriptor carries a png
replace_mermaid_ignoring_png(idx, byIndex, usePng, cairo, m0) ==
    IF idx \in DOMAIN byIndex
    THEN LET r == svg_to_png(byIndex[idx].svg, cairo)
         IN IF usePng /\ r.exc = ""
            THEN [raised |-> FALSE, text |-> MermaidImage(r.val)]
            ELSE [raised |-> FALSE, text |-> MermaidImage(byIndex[idx].svg)]
    ELSE [raised |-> FALSE, text |-> m0]

\* replace_mermaid (lines 64-88) for the match text m0 and counter value idx:
\* [raised |-> BOOLEAN, text |-> replacement]
replace_mermaid(idx, byIndex, usePng, cairo, m0) ==
    IF idx \in DOMAIN byIndex
    THEN LET svg_data_uri == byIndex[idx].svg
             png_data_uri == byIndex[idx].png
         IN IF usePng
            THEN IF png_data_uri # ""
                 THEN [raised |-> FALSE, text |-> MermaidImage(png_data_uri)]
                 ELSE LET r == svg_to_png(svg_data_uri, cairo)
                      IN IF r.exc = ""
                         THEN [raised |-> FALSE, text |-> MermaidImage(r.val)]
                         ELSE IF CaughtByExceptException(r.exc)
                         THEN [raised |-> FALSE, text |-> MermaidImage(svg_data_uri)]
                         ELSE [raised |-> TRUE, text |-> <<>>]
            ELSE [raised |-> FALSE, text |-> MermaidImage(svg_data_uri)]
    ELSE [raised |-> FALSE, text |-> m0]

\* ---- actions

\* line 48-49: if not mermaid_diagrams: return content
MermaidNoDiagrams ==
    /\ m_pc = "start"
    /\ mermaid_diagrams = <<>>
    /\ m_out' = content
    /\ m_pc' = "done"
    /\ UNCHANGED <<content, mermaid_diagrams, use_png, cairosvg,
                   diagrams_by_index, current_index, m_pos, m_calls>>
    /\ UNCHANGED notMer

\* lines 52-62: build the lookup dict, current_index = [0], enter re.sub
MermaidBegin ==
    /\ m_pc = "start"
    /\ mermaid_diagrams # <<>>
    /\ diagrams_by_index' = BuildDiagramsByIndex(mermaid_diagrams, EmptyDict)
    /\ current_index' = 0
    /\ m_pos' = 1
    /\ m_out' = <<>>
    /\ m_calls' = <<>>
    /\ m_pc' = "scan"
    /\ UNCHANGED <<content, mermaid_diagrams, use_png, cairosvg>>
    /\ UNCHANGED notMer

\* re.sub finds the next match and calls replace_mermaid on it
MermaidReplace ==
    /\ m_pc = "scan"
    /\ MermaidSearch(content, m_pos) # 0
    /\ LET st == MermaidSearch(content, m_pos)
           en == MermaidMatchEnd(content, st)
           m0 == Slice(content, st, en - 1)
           r  == replace_mermaid(current_index, diagrams_by_index,
                                 use_png, cairosvg, m0)
       IN /\ current_index' = NextIndex(current_index)
          /\ m_calls' = Append(m_calls, [start |-> st, stop |-> en,
                                         idx |-> current_index, text |-> r.text])
          /\ IF r.raised
             THEN /\ m_pc' = "raised"
                  /\ UNCHANGED <<m_out, m_pos>>
             ELSE /\ m_out' = m_out \o Slice(content, m_pos, st - 1) \o r.text
                  /\ m_pos' = en
                  /\ m_pc' = "scan"
    /\ UNCHANGED <<content, mermaid_diagrams, use_png, cairosvg, diagrams_by_index>>
    /\ UNCHANGED notMer

\* re.sub: no further match, the tail is copied and the result returned
MermaidFinish ==
    /\ m_pc = "scan"
    /\ MermaidSearch(content, m_pos) = 0
    /\ m_out' = m_out \o Slice(content, m_pos, Len(content))
    /\ m_pos' = Len(content) + 1
    /\ m_pc' = "done"
    /\ UNCHANGED <<content, mermaid_diagrams, use_png, cairosvg,
                   diagrams_by_index, current_index, m_calls>>
    /\ UNCHANGED notMer

\* ---- inputs

MaxSegs == 3
MaxDiagrams == 2
MaxIndex == 2
MaxUriSegs == 2
MaxUriDiagrams == 1

\* Pieces of Markdown the documents are assembled from
MermaidSegments ==
    { <<"F", "M", "n", "x", "F">>,         \* ```mermaid\n x ```
      <<"F", "M", "s", "n", "n", "F">>,    \* ```mermaid \n\n```
      <<"F", "x", "n", "F">>,              \* text: a fenced block of another kind
      <<"F", "M", "n">> }                  \* an opener with no closing fence

MermaidContents(n) == {Flatten(ss) : ss \in SeqsUpTo(MermaidSegments, n)}

\* descriptor lists whose entries are told apart by their position in the list
PositionSvg(k) == CASE k = 1 -> "data:image/svg+xml;base64,A"
                    [] k = 2 -> "data:image/svg+xml;base64,B"
                    [] k = 3 -> "data:image/svg+xml;base64,C"
                    [] OTHER -> "data:image/svg+xml;base64,D"

OrderDiagrams ==
    {[k \in DOMAIN ix |-> [index |-> ix[k], svg |-> PositionSvg(k), png |-> ""]] :
        ix \in SeqsUpTo(0..MaxIndex, MaxDiagrams)}

UriSvgs == {"", "<svg/>", "data:image/svg+xml;base64,GOOD",
            "data:image/svg+xml;base64,!notb64", "data:image/svg+xml;base64,NOTSVG"}
UriPngs == {"", "data:image/png;base64,CLIENT"}

UriDiagrams ==
    SeqsUpTo([index : 0..1, svg : UriSvgs, png : UriPngs], MaxUriDiagrams)

UriSegments == { <<"F", "M", "n", "x", "F">>, <<"x", "n">> }

MermaidInit ==
    /\ \/ /\ content \in MermaidContents(MaxSegs)
          /\ mermaid_diagrams \in OrderDiagrams
          /\ cairosvg = "ok"
          /\ use_png = FALSE
       \/ /\ content \in {Flatten(ss) : ss \in SeqsUpTo(UriSegments, MaxUriSegs)}
          /\ mermaid_diagrams \in UriDiagrams
          /\ cairosvg \in {"ok", "absent"}
          /\ use_png \in BOOLEAN
    /\ diagrams_by_index = EmptyDict
    /\ current_index = 0
    /\ m_pos = 1
    /\ m_out = <<>>
    /\ m_calls = <<>>
    /\ m_pc = "start"

MermaidNext ==
    \/ MermaidNoDiagrams
    \/ MermaidBegin
    \/ MermaidReplace
    \/ MermaidFinish

\* replace_mermaid_with_images not running
MermaidIdle ==
    /\ content = <<>> /\ mermaid_diagrams = <<>> /\ use_png = FALSE
    /\ cairosvg = "ok" /\ diagrams_by_index = EmptyDict /\ current_index = 0
    /\ m_pos = 1 /\ m_out = <<>> /\ m_calls = <<>> /\ m_pc = "idle"

----------------------------------------------------------------------------
\* embed_images_as_base64: the pattern  !\[([^\]]*)\]\(([^)"\s]+)(?:\s+"[^"]*")?\)
\* Tokens: the characters ! [ ] ( ) " and the blank, the literals "http://",
\* "https://", "data:", percent escapes ("%61" is a, "%00" is NUL), file-name
\* parts ("a", "b") and extensions (".png", ".svg").

IsBlank(t) == t = " "

\* first index >= i whose token satisfies the stop set, or Len+1
FirstIn(c, i, stop) ==
    IF \E j \in i..Len(c) : c[j] \in stop
    THEN Min({j \in i..Len(c) : c[j] \in stop})
    ELSE Len(c) + 1

\* first index >= i whose token is not a blank, or Len+1
BlankRunEnd(c, i) ==
    IF \E j \in i..Len(c) : ~IsBlank(c[j])
    THEN Min({j \in i..Len(c) : ~IsBlank(c[j])})
    ELSE Len(c) + 1

NoImageMatch == [end |-> 0, alt |-> <<>>, path |-> <<>>]

\* The pattern anchored at i: end = 0 when it does not match there, otherwise
\* the index just past the match, with groups 1 (alt) and 2 (path).
ImageMatchAt(c, i) ==
    IF i + 1 > Len(c) \/ c[i] # "!" \/ c[i+1] # "[" THEN NoImageMatch
    ELSE LET j == FirstIn(c, i + 2, {"]"})            \* [^\]]* then \]
         IN IF j + 1 > Len(c) \/ c[j+1] # "(" THEN NoImageMatch
            ELSE LET p0 == j + 2
                     k  == FirstIn(c, p0, {")", "\"", " "})   \* [^)"\s]+
                     g  == [alt |-> Slice(c, i + 2, j - 1), path |-> Slice(c, p0, k - 1)]
                 IN IF k = p0 \/ k > Len(c) THEN NoImageMatch
                    ELSE IF c[k] = ")" THEN [end |-> k + 1] @@ g
                    ELSE IF c[k] = " "                     \* (?:\s+"[^"]*")?
                    THEN LET m == BlankRunEnd(c, k)
                         IN IF m > Len(c) \/ c[m] # "\"" THEN NoImageMatch
                            ELSE LET n == FirstIn(c, m + 1, {"\""})
                                 IN IF n + 1 > Len(c) \/ c[n+1] # ")"
                                    THEN NoImageMatch
                                    ELSE [end |-> n + 2] @@ g
                    ELSE NoImageMatch

\* re.sub's search: the leftmost match starting at or after pos (0: none)
ImageSearch(c, pos) ==
    LET starts == {i \in pos..Len(c) : ImageMatchAt(c, i).end # 0}
    IN IF starts = {} THEN 0 ELSE Min(starts)

\* a prefix test that forgets the inline case
StartsWithRemoteOnly(path) ==
    path # <<>> /\ path[1] \in {"http://", "https://"}

\* img_path.startswith(('http://', 'https://', 'data:'))  (line 175)
StartsWithRemoteOrData(path) ==
    path # <<>> /\ path[1] \in {"http://", "https://", "data:"}

\* urllib.parse.unquote on one token
UnquoteToken(t) == CASE t = "%61" -> "a"
                     [] t = "%00" -> "NUL"
                     [] OTHER -> t

\* unquote(img_path), then the name under markdown_dir as one string
RECURSIVE JoinTokens(_)
JoinTokens(ts) == IF ts = <<>> THEN "" ELSE Head(ts) \o JoinTokens(Tail(ts))

Unquote(path) == [k \in DOMAIN path |-> UnquoteToken(path[k])]

\* (markdown_dir / img_path_decoded).resolve() raises ValueError on an
\* embedded NUL
ResolveRaises(decoded) == \E k \in DOMAIN decoded : decoded[k] = "NUL"

\* full_path.suffix.lower() through mime_types.get(ext, 'application/octet-stream')
MimeType(decoded) ==
    LET ext == decoded[Len(decoded)]
    IN CASE ext \in {".png", ".PNG"} -> "image/png"
         [] ext = ".svg" -> "image/svg+xml"
         [] OTHER -> "application/octet-stream"

\* f'![{alt_text}](data:{mime_type};base64,{img_data})'
EmbeddedImage(alt, mime, name) ==
    <<"!", "[">> \o alt \o <<"]", "(", "data:", mime, ";base64,", "b64(" \o name \o ")", ")">>

FsStatus(fs, name) == IF name \in DOMAIN fs THEN fs[name] ELSE "missing"

\* replace_image (lines 171-202) on a match with text m0:
\* [raised, text, touched]; touched are the files stat'ed or opened
replace_image(g, m0, fs) ==
    IF StartsWithRemoteOrData(g.path)
    THEN [raised |-> FALSE, text |-> m0, touched |-> {}]
    ELSE LET decoded == Unquote(g.path)
             name == JoinTokens(decoded)
         IN IF ResolveRaises(decoded)                       \* line 180, no try
            THEN [raised |-> TRUE, text |-> <<>>, touched |-> {}]
            ELSE IF FsStatus(fs, name) = "stat_error"       \* line 182, no try
            THEN [raised |-> TRUE, text |-> <<>>, touched |-> {name}]
            ELSE IF FsStatus(fs, name) = "missing"
            THEN [raised |-> FALSE, text |-> m0, touched |-> {name}]
            ELSE IF FsStatus(fs, name) = "unreadable"       \* lines 185-202, caught
            THEN [raised |-> FALSE, text |-> m0, touched |-> {name}]
            ELSE [raised |-> FALSE,
                  text |-> EmbeddedImage(g.alt, MimeType(decoded), name),
                  touched |-> {name}]

\* ---- actions

\* re.sub finds the next match and calls replace_image on it
EmbedReplace ==
    /\ e_pc = "scan"
    /\ ImageSearch(e_content, e_pos) # 0
    /\ LET st == ImageSearch(e_content, e_pos)
           g  == ImageMatchAt(e_content, st)
           m0 == Slice(e_content, st, g.end - 1)
           r  == replace_image(g, m0, e_fs)
       IN /\ e_calls' = Append(e_calls, [start |-> st, stop |-> g.end, path |-> g.path,
                                         raised |-> r.raised, text |-> r.text,
                                         touched |-> r.touched])
          /\ e_touched' = e_touched \cup r.touched
          /\ IF r.raised
             THEN /\ e_pc' = "raised"
                  /\ UNCHANGED <<e_out, e_pos>>
             ELSE /\ e_out' = e_out \o Slice(e_content, e_pos, st - 1) \o r.text
                  /\ e_pos' = g.end
                  /\ e_pc' = "scan"
    /\ UNCHANGED <<e_content, e_fs>>
    /\ UNCHANGED notEmb

\* re.sub: no further match, the tail is copied and the result returned
EmbedFinish ==
    /\ e_pc = "scan"
    /\ ImageSearch(e_content, e_pos) = 0
    /\ e_out' = e_out \o Slice(e_content, e_pos, Len(e_content))
    /\ e_pos' = Len(e_content) + 1
    /\ e_pc' = "done"
    /\ UNCHANGED <<e_content, e_fs, e_touched, e_calls>>
    /\ UNCHANGED notEmb

\* ---- inputs

MaxEmbedSegs == 2

EmbedSegments ==
    { <<"!", "[", "a", "]", "(", "a", ".png", ")">>,
      <<"!", "[", "a", "]", "(", "%61", ".png", " ", "\"", "b", "\"", ")">>,
      <<"!", "[", "a", "]", "(", "http://", "a", ".png", ")">>,
      <<"!", "[", "]", "(", "data:", "a", " ", "\"", "b", "\"", ")">>,
      <<"!", "[", "b", "]", "(", "b", ".svg", ")">>,
      <<"!", "[", "b", "]", "(", "%00", ")">>,
      <<"a", " ">>,
      <<"!", "[">> }

EmbedFiles == {"a.png", "b.svg"}
FsStatuses == {"file", "missing", "stat_error", "unreadable"}

EmbedInit ==
    /\ e_content \in {Flatten(ss) : ss \in SeqsUpTo(EmbedSegments, MaxEmbedSegs)}
    /\ e_fs \in [EmbedFiles -> FsStatuses]
    /\ e_touched = {}
    /\ e_pos = 1
    /\ e_out = <<>>
    /\ e_calls = <<>>
    /\ e_pc = "scan"

EmbedNext == EmbedReplace \/ EmbedFinish

\* embed_images_as_base64 not running
EmbedIdle ==
    /\ e_content = <<>> /\ e_fs = [f \in EmbedFiles |-> "missing"] /\ e_touched = {}
    /\ e_pos = 1 /\ e_out = <<>> /\ e_calls = <<>> /\ e_pc = "idle"

----------------------------------------------------------------------------
\* The export handlers: ExportPdfHandler.post, ExportDocxHandler.post,
\* ExportHtmlHandler.post

Handlers == {"pdf", "docx", "html"}

MaxImages == 2

\* request.body: not JSON at all, JSON that is no object, or an object whose
\* 'path' is absent (None), '', a number, or a string naming a missing or an
\* existing file; 'mermaidDiagrams' is absent, a well-formed list, or a list
\* with an entry that has no 'index'
Requests ==
    {[body |-> b, path |-> "absent", diagrams |-> "none"] : b \in {"invalid_json", "not_object"}}
    \cup [body : {"object"},
          path : {"absent", "", "<number>", "missing.md", "doc.md"},
          diagrams : {"none", "wellformed", "malformed"}]

\* a guard that tests for None only
PathIsNone(path) == path = "absent"

\* `not relative_path` (lines 409, 456, 569)
NoPath(path) == path \in {"absent", ""}

\* file_path.exists() for Path(root_dir) / relative_path: '' is the root
\* directory itself
Exists(path) == path \in {"", "doc.md"}

ContentType(h) ==
    CASE h = "pdf"  -> "application/pdf"
      [] h = "docx" -> "application/vnd.openxmlformats-officedocument.wordprocessingml.document"
      [] h = "html" -> "text/html; charset=utf-8"

\* f'attachment; filename="{file_path.stem}.<ext>"'
ContentDisposition(h, path) == "attachment; filename=" \o path \o "." \o h

NoHeaders == [ct |-> "", cd |-> ""]
NoBody == [kind |-> "none", value |-> ""]

\* json.dumps({'error': ...}) of the two except clauses
ErrorBody(exc) ==
    [kind |-> "error",
     value |-> IF exc = "ImportError" THEN "Missing dependency" ELSE exc]

\* the except clauses (436-443, 549-556, 591-598): set_status(500) and
\* finish(error); headers already set are left as they are
Raise(exc) ==
    /\ status' = 500
    /\ body' = ErrorBody(exc)
    /\ finish_calls' = finish_calls + 1
    /\ pc' = "done"

\* set_status(code); finish(json.dumps({'error': msg})); return
Reject(code, msg) ==
    /\ status' = code
    /\ body' = [kind |-> "error", value |-> msg]
    /\ finish_calls' = finish_calls + 1
    /\ pc' = "done"

\* a cleanup written after the block instead of a with statement
ExitWithoutFinally(dirs, d, raised) ==
    IF raised THEN dirs ELSE [x \in DOMAIN dirs \ {d} |-> dirs[x]]

\* TemporaryDirectory.__exit__ (the with statement of line 483): the
\* directory and its files are removed, on return and on exception alike
ExitWith(dirs, d, raised) == [x \in DOMAIN dirs \ {d} |-> dirs[x]]

NoDirs == [x \in {} |-> {}]

\* the directory of the running export
CurrentDir == temp_created

\* lines 405-407: json.loads(self.request.body), data.get(...)
Parse ==
    /\ pc = "parse"
    /\ IF request.body = "object"
       THEN /\ pc' = "check_path"
            /\ UNCHANGED <<status, body, finish_calls>>
       ELSE Raise(IF request.body = "invalid_json" THEN "JSONDecodeError"
                  ELSE "AttributeError")
    /\ UNCHANGED <<handler, request, images, headers, file_reads, stages, staged,
                   temp_dirs, temp_created>>
    /\ UNCHANGED notHdl

\* lines 409-412
CheckPath ==
    /\ pc = "check_path"
    /\ IF NoPath(request.path)
       THEN Reject(400, "No path provided")
       ELSE /\ pc' = "check_exists"
            /\ UNCHANGED <<status, body, finish_calls>>
    /\ UNCHANGED <<handler, request, images, headers, file_reads, stages, staged,
                   temp_dirs, temp_created>>
    /\ UNCHANGED notHdl

\* lines 414-419: get_absolute_path (Path / non-string raises TypeError; / None
\* too), then file_path.exists()
CheckExists ==
    /\ pc = "check_exists"
    /\ IF request.path \in {"<number>", "absent"}
       THEN Raise("TypeError")
       ELSE IF ~Exists(request.path)
       THEN Reject(404, "File not found")
       ELSE /\ pc' = "read"
            /\ UNCHANGED <<status, body, finish_calls>>
    /\ UNCHANGED <<handler, request, images, headers, file_reads, stages, staged,
                   temp_dirs, temp_created>>
    /\ UNCHANGED notHdl

\* line 421: read_markdown_file; open() of a directory raises, and a file may
\* be unreadable or not UTF-8
Read ==
    /\ pc = "read"
    /\ file_reads' = file_reads + 1
    /\ stages' = Append(stages, "read")
    /\ \E ok \in BOOLEAN :
         IF ok /\ request.path # ""
         THEN /\ pc' = "substitute"
              /\ UNCHANGED <<status, body, finish_calls>>
         ELSE Raise(IF request.path = "" THEN "IsADirectoryError" ELSE "OSError")
    /\ UNCHANGED <<handler, request, images, headers, staged, temp_dirs, temp_created>>
    /\ UNCHANGED notHdl

\* lines 423 / 470 / 582: replace_mermaid_with_images; d['index'] of an entry
\* without that key raises KeyError (line 57)
Substitute ==
    /\ pc = "substitute"
    /\ stages' = Append(stages, "substitute")
    /\ IF request.diagrams = "malformed"
       THEN Raise("KeyError")
       ELSE /\ pc' = "embed"
            /\ UNCHANGED <<status, body, finish_calls>>
    /\ UNCHANGED <<handler, request, images, headers, file_reads, staged,
                   temp_dirs, temp_created>>
    /\ UNCHANGED notHdl

\* lines 424 / 471 / 583: embed_images_as_base64, which returns or raises
\* (replace_image's resolve() and exists() are outside its try)
Embed ==
    /\ pc = "embed"
    /\ stages' = Append(stages, "embed")
    /\ \E ok \in BOOLEAN :
         IF ok
         THEN /\ pc' = "render"
              /\ UNCHANGED <<status, body, finish_calls>>
         ELSE Raise("ValueError")
    /\ UNCHANGED <<handler, request, images, headers, file_reads, staged,
                   temp_dirs, temp_created>>
    /\ UNCHANGED notHdl

\* lines 425 / 472 / 584: markdown_to_html; `import markdown` may fail
Render ==
    /\ pc = "render"
    /\ stages' = Append(stages, "render")
    /\ \E ok \in BOOLEAN :
         IF ok
         THEN /\ pc' = CASE handler = "pdf" -> "pdf_write"
                         [] handler = "docx" -> "docx_import"
                         [] handler = "html" -> "set_content_type"
              /\ UNCHANGED <<status, body, finish_calls>>
         ELSE Raise("ImportError")
    /\ UNCHANGED <<handler, request, images, headers, file_reads, staged,
                   temp_dirs, temp_created>>
    /\ UNCHANGED notHdl

\* lines 427-429: from weasyprint import HTML; HTML(string=html).write_pdf()
PdfWrite ==
    /\ pc = "pdf_write"
    /\ stages' = Append(stages, "write_pdf")
    /\ \E out \in {"ok", "ImportError", "RenderError"} :
         IF out = "ok"
         THEN /\ pc' = "set_content_type"
              /\ UNCHANGED <<status, body, finish_calls>>
         ELSE Raise(out)
    /\ UNCHANGED <<handler, request, images, headers, file_reads, staged,
                   temp_dirs, temp_created>>
    /\ UNCHANGED notHdl

\* lines 474-480: the htmldocx / docx imports and the body extraction
DocxImport ==
    /\ pc = "docx_import"
    /\ stages' = Append(stages, "docx_import")
    /\ \E ok \in BOOLEAN :
         IF ok
         THEN /\ pc' = "docx_tempdir"
              /\ UNCHANGED <<status, body, finish_calls>>
         ELSE Raise("ImportError")
    /\ UNCHANGED <<handler, request, images, headers, file_reads, staged,
                   temp_dirs, temp_created>>
    /\ UNCHANGED notHdl

\* line 483: with tempfile.TemporaryDirectory() as temp_dir
DocxTempDir ==
    /\ pc = "docx_tempdir"
    /\ temp_created' = temp_created + 1
    /\ temp_dirs' = [x \in DOMAIN temp_dirs \cup {temp_created + 1} |->
                        IF x = temp_created + 1 THEN {} ELSE temp_dirs[x]]
    /\ staged' = 0
    /\ pc' = "docx_stage"
    /\ UNCHANGED <<handler, request, images, status, headers, body, finish_calls,
                   file_reads, stages>>
    /\ UNCHANGED notHdl

\* line 484, one <img> of extract_data_uri_images: the payload is decoded and
\* written under temp_dir, or the failure is swallowed (lines 146-159)
DocxStageImage ==
    /\ pc = "docx_stage"
    /\ staged < images
    /\ staged' = staged + 1
    /\ \E written \in BOOLEAN :
         temp_dirs' = IF written
                      THEN [temp_dirs EXCEPT ![CurrentDir] = @ \cup {staged + 1}]
                      ELSE temp_dirs
    /\ UNCHANGED <<handler, request, images, pc, status, headers, body, finish_calls,
                   file_reads, stages, temp_created>>
    /\ UNCHANGED notHdl

\* lines 486-496: Document(), the margins, parser.add_html_to_document
DocxConvert ==
    /\ pc = "docx_stage"
    /\ staged = images
    /\ stages' = Append(stages, "docx_convert")
    /\ \E ok \in BOOLEAN :
         IF ok
         THEN /\ pc' = "docx_fixups"
              /\ UNCHANGED <<status, body, finish_calls, temp_dirs>>
         ELSE /\ temp_dirs' = ExitWith(temp_dirs, CurrentDir, TRUE)
              /\ Raise("ConversionError")
    /\ UNCHANGED <<handler, request, images, headers, file_reads, staged, temp_created>>
    /\ UNCHANGED notHdl

\* lines 498-537: table styles, leading empty paragraphs, image fitting
DocxFixups ==
    /\ pc = "docx_fixups"
    /\ stages' = Append(stages, "docx_fixups")
    /\ \E ok \in BOOLEAN :
         IF ok
         THEN /\ pc' = "docx_save"
              /\ UNCHANGED <<status, body, finish_calls, temp_dirs>>
         ELSE /\ temp_dirs' = ExitWith(temp_dirs, CurrentDir, TRUE)
              /\ Raise("FixupError")
    /\ UNCHANGED <<handler, request, images, headers, file_reads, staged, temp_created>>
    /\ UNCHANGED notHdl

\* lines 539-541 and the end of the with block
DocxSave ==
    /\ pc = "docx_save"
    /\ stages' = Append(stages, "docx_save")
    /\ \E ok \in BOOLEAN :
         /\ temp_dirs' = ExitWith(temp_dirs, CurrentDir, ~ok)
         /\ IF ok
            THEN /\ pc' = "set_content_type"
                 /\ UNCHANGED <<status, body, finish_calls>>
            ELSE Raise("SaveError")
    /\ UNCHANGED <<handler, request, images, headers, file_reads, staged, temp_created>>
    /\ UNCHANGED notHdl

\* lines 431 / 543-544 / 586
SetContentType ==
    /\ pc = "set_content_type"
    /\ headers' = [headers EXCEPT !.ct = ContentType(handler)]
    /\ pc' = "set_content_disposition"
    /\ UNCHANGED <<handler, request, images, status, body, finish_calls, file_reads,
                   stages, staged, temp_dirs, temp_created>>
    /\ UNCHANGED notHdl

\* lines 432-433 / 545-546 / 587-588
SetContentDisposition ==
    /\ pc = "set_content_disposition"
    /\ headers' = [headers EXCEPT !.cd = ContentDisposition(handler, request.path)]
    /\ pc' = IF handler = "html" THEN "encode" ELSE "finish"
    /\ UNCHANGED <<handler, request, images, status, body, finish_calls, file_reads,
                   stages, staged, temp_dirs, temp_created>>
    /\ UNCHANGED notHdl

\* line 589, the argument of finish: html.encode('utf-8') raises
\* UnicodeEncodeError when the text holds a lone surrogate, which json.loads
\* lets through in a descriptor's svg string
HtmlEncode ==
    /\ pc = "encode"
    /\ stages' = Append(stages, "encode")
    /\ \E ok \in BOOLEAN :
         IF ok \/ request.diagrams = "none"
         THEN /\ pc' = "finish"
              /\ UNCHANGED <<status, body, finish_calls>>
         ELSE Raise("UnicodeEncodeError")
    /\ UNCHANGED <<handler, request, images, headers, file_reads, staged,
                   temp_dirs, temp_created>>
    /\ UNCHANGED notHdl

\* lines 434 / 547 / 589: self.finish(<artifact bytes>)
Finish ==
    /\ pc = "finish"
    /\ body' = [kind |-> "artifact", value |-> handler]
    /\ finish_calls' = finish_calls + 1
    /\ pc' = "done"
    /\ UNCHANGED <<handler, request, images, status, headers, file_reads, stages,
                   staged, temp_dirs, temp_created>>
    /\ UNCHANGED notHdl

HandlerInit ==
    /\ handler \in Handlers
    /\ request \in Requests
    /\ images \in 0..MaxImages
    /\ pc = "parse"
    /\ status = 200
    /\ headers = NoHeaders
    /\ body = NoBody
    /\ finish_calls = 0
    /\ file_reads = 0
    /\ stages = <<>>
    /\ staged = 0
    /\ temp_dirs = NoDirs
    /\ temp_created = 0

HandlerNext ==
    \/ Parse \/ CheckPath \/ CheckExists \/ Read \/ Substitute \/ Embed \/ Render
    \/ PdfWrite
    \/ DocxImport \/ DocxTempDir \/ DocxStageImage \/ DocxConvert \/ DocxFixups \/ DocxSave
    \/ SetContentType \/ SetContentDisposition \/ HtmlEncode \/ Finish

\* no request in progress
HandlerIdle ==
    /\ handler = "html" /\ request = [body |-> "object", path |-> "absent", diagrams |-> "none"]
    /\ images = 0 /\ pc = "idle" /\ status = 200 /\ headers = NoHeaders /\ body = NoBody
    /\ finish_calls = 0 /\ file_reads = 0 /\ stages = <<>> /\ staged = 0
    /\ temp_dirs = NoDirs /\ temp_created = 0

----------------------------------------------------------------------------
\* DOCX fix-up: the removal of leading empty paragraphs (lines 509-512)
\* A body element is a table or a paragraph; a paragraph is told by what its
\* runs hold: nothing, only whitespace, text, or only an inline picture.

ElementKinds == {"table", "p_empty", "p_blank", "p_text", "p_picture"}

IsParagraph(e) == e # "table"

\* paragraph.text.strip(): the runs' text; a picture contributes no text
StrippedText(e) == IF e = "p_text" THEN "text" ELSE ""

\* document.paragraphs: the positions of the body's paragraphs, tables skipped
ParagraphPositions(b) == {i \in DOMAIN b : IsParagraph(b[i])}

RemoveAt(b, i) == Slice(b, 1, i - 1) \o Slice(b, i + 1, Len(b))

\* the loop test of line 510
HasLeadingEmpty(b) ==
    /\ ParagraphPositions(b) # {}
    /\ StrippedText(b[Min(ParagraphPositions(b))]) = ""

\* lines 511-512: p = document.paragraphs[0]._element; p.getparent().remove(p)
RemoveLeadingParagraph ==
    /\ par_pc = "loop"
    /\ HasLeadingEmpty(doc_body)
    /\ doc_body' = RemoveAt(doc_body, Min(ParagraphPositions(doc_body)))
    /\ UNCHANGED <<doc_input, par_pc>>
    /\ UNCHANGED notPar

\* line 510: the loop test fails
LeadingParagraphsDone ==
    /\ par_pc = "loop"
    /\ ~HasLeadingEmpty(doc_body)
    /\ par_pc' = "done"
    /\ UNCHANGED <<doc_input, doc_body>>
    /\ UNCHANGED notPar

MaxBody == 3

ParagraphsInit ==
    /\ doc_input \in SeqsUpTo(ElementKinds, MaxBody)
    /\ doc_body = doc_input
    /\ par_pc = "loop"

ParagraphsNext == RemoveLeadingParagraph \/ LeadingParagraphsDone

ParagraphsIdle == doc_input = <<>> /\ doc_body = <<>> /\ par_pc = "idle"

----------------------------------------------------------------------------
\* DOCX fix-up: image fitting (lines 514-537).  Lengths are EMU (914400 per
\* inch).  The products exceed 32 bits, so they are taken through MulDiv.

\* Inches(8.5) - Inches(1.0)
page_width == 6858000
\* Inches(11) - Inches(1.0)
page_height == 9144000

\* [q, r] with a * b = q * c + r and 0 <= r < c, by halving b
RECURSIVE MulDiv(_, _, _)
MulDiv(a, b, c) ==
    IF b = 0 THEN [q |-> 0, r |-> 0]
    ELSE LET h == MulDiv(a, b \div 2, c)
             odd == b % 2 = 1
             r2 == 2 * h.r + (IF odd THEN a % c ELSE 0)
         IN [q |-> 2 * h.q + (IF odd THEN a \div c ELSE 0) + (r2 \div c),
             r |-> r2 % c]

\* a * b <= c * d, for d > 0
ProductLeq(a, b, c, d) ==
    LET m == MulDiv(a, b, d) IN m.q < c \/ (m.q = c /\ m.r = 0)

\* a ratio that looks at the width only
WidthRatioOnly(w, h) ==
    IF w > page_width THEN [num |-> page_width, den |-> w, resize |-> TRUE]
    ELSE [num |-> 1, den |-> 1, resize |-> h > page_height]

\* lines 524-533: ratio = 1.0, then min(ratio, page_width / orig_width) and
\* min(ratio, page_height / orig_height) for the dimensions that exceed
ShrinkRatio(w, h) ==
    LET byW == [num |-> page_width, den |-> w, resize |-> TRUE]
        byH == [num |-> page_height, den |-> h, resize |-> TRUE]
    IN IF w > page_width /\ h > page_height
       THEN IF ProductLeq(page_width, h, page_height, w) THEN byW ELSE byH
       ELSE IF w > page_width THEN byW
       ELSE IF h > page_height THEN byH
       ELSE [num |-> 1, den |-> 1, resize |-> FALSE]

\* int(orig * ratio) in double arithmetic: the floor of the exact product, or
\* one less when the exact product is a whole number that the rounded ratio
\* misses from below
ScaledLengths(orig, ratio) ==
    LET m == MulDiv(orig, ratio.num, ratio.den)
    IN IF m.r = 0 /\ m.q > 0 THEN {m.q - 1, m.q} ELSE {m.q}

\* one iteration of the for loop of line 519
FitShape ==
    /\ shp_pc = "loop"
    /\ shape_i <= Len(shapes)
    /\ LET orig_width == shapes[shape_i].width
           orig_height == shapes[shape_i].height
           ratio == ShrinkRatio(orig_width, orig_height)
       IN IF ratio.resize
          THEN \E nw \in ScaledLengths(orig_width, ratio),
                  nh \in ScaledLengths(orig_height, ratio) :
                  shapes' = [shapes EXCEPT ![shape_i] = [width |-> nw, height |-> nh]]
          ELSE shapes' = shapes
    /\ shape_i' = shape_i + 1
    /\ UNCHANGED <<shapes_input, shp_pc>>
    /\ UNCHANGED notShp

\* the for loop is exhausted
FitShapesDone ==
    /\ shp_pc = "loop"
    /\ shape_i > Len(shapes)
    /\ shp_pc' = "done"
    /\ UNCHANGED <<shapes_input, shapes, shape_i>>
    /\ UNCHANGED notShp

MaxShapes == 1
MaxHalfPages == 3

\* image sizes around the multiples of half the usable width / height
ShapeWidths ==
    {1, 2} \cup {(page_width \div 2) * k + d : k \in 1..MaxHalfPages, d \in {-1, 0, 1}}
ShapeHeights ==
    {1, 2} \cup {(page_height \div 2) * k + d : k \in 1..MaxHalfPages, d \in {-1, 0, 1}}

ShapesInit ==
    /\ shapes_input \in SeqsUpTo([width : ShapeWidths, height : ShapeHeights], MaxShapes)
    /\ shapes = shapes_input
    /\ shape_i = 1
    /\ shp_pc = "loop"

ShapesNext == FitShape \/ FitShapesDone

ShapesIdle == shapes_input = <<>> /\ shapes = <<>> /\ shape_i = 1 /\ shp_pc = "idle"

----------------------------------------------------------------------------
\* Several export requests in flight.  Each request runs post() on its own
\* handler object; the steps of different requests may interleave in any order.
\* What the requests could share is the counter of replace_mermaid (lines
\* 62-66) and the directory the DOCX images are staged in (lines 483-484).

MaxRequests == 2

InFlight == 1..MaxRequests

\* the names tempfile can hand out; a request holds at most one directory
TempNames == 1..MaxRequests

\* one counter for the whole process instead of one per invocation
SharedCounterCell(r) == 1

\* line 62: current_index = [0] builds a new list in every invocation
CounterCell(r) == r

\* use_png as the handlers pass it (lines 423, 470, 582)
UsePng(h) == h \in {"pdf", "docx"}

\* tempfile.TemporaryDirectory() (line 483): mkdtemp creates a directory that
\* did not exist
mkdtemp(existing) == TempNames \ existing

\* the uris of the image references substitution wrote
ImageUris(out) ==
    {out[k + 1] : k \in {j \in 1..(Len(out) - 1) : out[j] = "![Mermaid Diagram]("}}

\* lines 147-150: img_<md5 of the bytes>, the same name for the same image
StagedName(uri) == "img_md5(" \o uri \o ")"

\* extract_data_uri_images (lines 131-161): the files one document stages
StagedFiles(out) == {StagedName(u) : u \in ImageUris(out)}

\* ---- actions of request r

\* lines 48-49
ReqNoDiagrams(r) ==
    /\ c_pc[r] = "start"
    /\ c_req[r].diagrams = <<>>
    /\ c_out' = [c_out EXCEPT ![r] = c_req[r].content]
    /\ c_pc' = [c_pc EXCEPT ![r] = IF c_req[r].handler = "docx" THEN "tempdir" ELSE "done"]
    /\ UNCHANGED <<c_req, c_cells, c_calls, c_pos, c_dir, c_tmp, c_read>>
    /\ UNCHANGED notCnc

\* lines 52-62: current_index = [0]
ReqBegin(r) ==
    /\ c_pc[r] = "start"
    /\ c_req[r].diagrams # <<>>
    /\ c_cells' = [c_cells EXCEPT ![CounterCell(r)] = 0]
    /\ c_pos' = [c_pos EXCEPT ![r] = 1]
    /\ c_out' = [c_out EXCEPT ![r] = <<>>]
    /\ c_pc' = [c_pc EXCEPT ![r] = "scan"]
    /\ UNCHANGED <<c_req, c_calls, c_dir, c_tmp, c_read>>
    /\ UNCHANGED notCnc

\* lines 64-88: one call of replace_mermaid
ReqReplace(r) ==
    /\ c_pc[r] = "scan"
    /\ MermaidSearch(c_req[r].content, c_pos[r]) # 0
    /\ LET c  == c_req[r].content
           st == MermaidSearch(c, c_pos[r])
           en == MermaidMatchEnd(c, st)
           idx == c_cells[CounterCell(r)]
           rp == replace_mermaid(idx, BuildDiagramsByIndex(c_req[r].diagrams, EmptyDict),
                                 UsePng(c_req[r].handler), "ok", Slice(c, st, en - 1))
       IN /\ c_cells' = [c_cells EXCEPT ![CounterCell(r)] = NextIndex(idx)]
          /\ c_calls' = [c_calls EXCEPT ![r] = @ + 1]
          /\ c_out' = [c_out EXCEPT ![r] = @ \o Slice(c, c_pos[r], st - 1) \o rp.text]
          /\ c_pos' = [c_pos EXCEPT ![r] = en]
    /\ UNCHANGED <<c_req, c_pc, c_dir, c_tmp, c_read>>
    /\ UNCHANGED notCnc

\* line 90: re.sub returns; the html handler has nothing left that is shared
ReqFinish(r) ==
    /\ c_pc[r] = "scan"
    /\ MermaidSearch(c_req[r].content, c_pos[r]) = 0
    /\ c_out' = [c_out EXCEPT ![r] = @ \o Slice(c_req[r].content, c_pos[r],
                                                Len(c_req[r].content))]
    /\ c_pos' = [c_pos EXCEPT ![r] = Len(c_req[r].content) + 1]
    /\ c_pc' = [c_pc EXCEPT ![r] = IF c_req[r].handler = "docx" THEN "tempdir" ELSE "done"]
    /\ UNCHANGED <<c_req, c_cells, c_calls, c_dir, c_tmp, c_read>>
    /\ UNCHANGED notCnc

\* line 483: with tempfile.TemporaryDirectory() as temp_dir
ReqTempDir(r) ==
    /\ c_pc[r] = "tempdir"
    /\ \E d \in mkdtemp(DOMAIN c_tmp) :
         /\ c_dir' = [c_dir EXCEPT ![r] = d]
         /\ c_tmp' = [x \in DOMAIN c_tmp \cup {d} |-> IF x = d THEN {} ELSE c_tmp[x]]
    /\ c_pc' = [c_pc EXCEPT ![r] = "stage"]
    /\ UNCHANGED <<c_req, c_cells, c_calls, c_pos, c_out, c_read>>
    /\ UNCHANGED notCnc

\* line 484: extract_data_uri_images writes the images under temp_dir; a
\* failed write is swallowed (lines 158-159)
ReqStage(r) ==
    /\ c_pc[r] = "stage"
    /\ c_tmp' = IF c_dir[r] \in DOMAIN c_tmp
                THEN [c_tmp EXCEPT ![c_dir[r]] = @ \cup StagedFiles(c_out[r])]
                ELSE c_tmp
    /\ c_pc' = [c_pc EXCEPT ![r] = "convert"]
    /\ UNCHANGED <<c_req, c_cells, c_calls, c_pos, c_out, c_dir, c_read>>
    /\ UNCHANGED notCnc

\* lines 486-496: the converter loads the staged files it finds
ReqConvert(r) ==
    /\ c_pc[r] = "convert"
    /\ c_read' = [c_read EXCEPT ![r] =
                    IF c_dir[r] \in DOMAIN c_tmp
                    THEN StagedFiles(c_out[r]) \cap c_tmp[c_dir[r]]
                    ELSE {}]
    /\ c_pc' = [c_pc EXCEPT ![r] = "cleanup"]
    /\ UNCHANGED <<c_req, c_cells, c_calls, c_pos, c_out, c_dir, c_tmp>>
    /\ UNCHANGED notCnc

\* the end of the with block: temp_dir and everything in it is removed
ReqCleanup(r) ==
    /\ c_pc[r] = "cleanup"
    /\ c_tmp' = [x \in DOMAIN c_tmp \ {c_dir[r]} |-> c_tmp[x]]
    /\ c_pc' = [c_pc EXCEPT ![r] = "done"]
    /\ UNCHANGED <<c_req, c_cells, c_calls, c_pos, c_out, c_dir, c_read>>
    /\ UNCHANGED notCnc

\* ---- inputs

ConcurrentContents ==
    { <<"F", "M", "n", "x", "F", "x", "F", "M", "n", "F">>,   \* two blocks
      <<"x", "F", "M", "n", "x", "F">> }                      \* one block

ConcurrentDiagrams ==
    { <<>>,
      <<[index |-> 1, svg |-> PositionSvg(1), png |-> ""],
        [index |-> 0, svg |-> PositionSvg(2), png |-> ""]>> }

ConcurrentInputs ==
    [content : ConcurrentContents, diagrams : ConcurrentDiagrams,
     handler : {"html", "docx"}]

NoTempDirs == [x \in {} |-> {}]

ConcurrentInit ==
    /\ c_req \in [InFlight -> ConcurrentInputs]
    /\ c_cells = [r \in InFlight |-> 0]
    /\ c_calls = [r \in InFlight |-> 0]
    /\ c_pos = [r \in InFlight |-> 1]
    /\ c_out = [r \in InFlight |-> <<>>]
    /\ c_pc = [r \in InFlight |-> "start"]
    /\ c_dir = [r \in InFlight |-> 0]
    /\ c_tmp = NoTempDirs
    /\ c_read = [r \in InFlight |-> {}]

ConcurrentNext ==
    \E r \in InFlight :
        \/ ReqNoDiagrams(r)
        \/ ReqBegin(r)
        \/ ReqReplace(r)
        \/ ReqFinish(r)
        \/ ReqTempDir(r)
        \/ ReqStage(r)
        \/ ReqConvert(r)
        \/ ReqCleanup(r)

\* no request in flight
ConcurrentIdle ==
    /\ c_req = <<>> /\ c_cells = <<>> /\ c_calls = <<>> /\ c_pos = <<>>
    /\ c_out = <<>> /\ c_pc = <<>> /\ c_dir = <<>> /\ c_tmp = NoTempDirs
    /\ c_read = <<>>

----------------------------------------------------------------------------
\* The two rewrites in sequence, as every post() calls them (lines 423-424,
\* 470-471, 582-583): the result of replace_mermaid_with_images is the content
\* argument of embed_images_as_base64.

\* the characters of a uri, as the tokens of the image pattern
UriTokens(uri) ==
    CASE uri = "" -> <<>>
      [] uri = "b.svg" -> <<"b", ".svg">>
      [] uri = "a.png" -> <<"a", ".png">>
      [] uri = "%00" -> <<"%00">>
      [] OTHER -> <<"data:", uri>>       \* the data: uris of the descriptors

\* the same text, as the tokens of the image pattern: every whitespace
\* character is a blank to \s, and an image reference written by
\* replace_mermaid is spelled out
RECURSIVE EmbedTokens(_)
EmbedTokens(t) ==
    IF t = <<>> THEN <<>>
    ELSE IF Head(t) = "![Mermaid Diagram]("
    THEN <<"!", "[", "Mermaid Diagram", "]", "(">> \o UriTokens(t[2]) \o <<")">>
             \o EmbedTokens(SubSeq(t, 4, Len(t)))
    ELSE IF IsWs(Head(t)) THEN <<" ">> \o EmbedTokens(Tail(t))
    ELSE <<Head(t)>> \o EmbedTokens(Tail(t))

\* content = self.embed_images_as_base64(content, file_path.parent) is entered
\* with the text replace_mermaid_with_images returned
PipelineEmbed ==
    /\ m_pc = "done"
    /\ e_pc = "idle"
    /\ m_pc' = "returned"
    /\ e_content' = EmbedTokens(m_out)
    /\ e_touched' = {}
    /\ e_pos' = 1
    /\ e_out' = <<>>
    /\ e_calls' = <<>>
    /\ e_pc' = "scan"
    /\ UNCHANGED <<content, mermaid_diagrams, use_png, cairosvg, diagrams_by_index,
                   current_index, m_pos, m_out, m_calls, e_fs>>
    /\ UNCHANGED <<hdlVars, parVars, shpVars, cncVars>>

\* ---- inputs

MaxPipeSegs == 2
MaxPipeDiagrams == 1

PipelineSegments ==
    { <<"F", "M", "n", "x", "F">>,                     \* a mermaid block
      <<"!", "[", "a", "]", "(", "a", ".png", ")">>,   \* an image of the document
      <<"x", "n">> }

PipelineSvgs == {"data:image/svg+xml;base64,GOOD", "b.svg"}
PipelinePngs == {"", "data:image/png;base64,CLIENT", "b.svg"}

PipelineDiagrams ==
    SeqsUpTo([index : {0}, svg : PipelineSvgs, png : PipelinePngs], MaxPipeDiagrams)

PipelineInit ==
    /\ content \in {Flatten(ss) : ss \in SeqsUpTo(PipelineSegments, MaxPipeSegs)}
    /\ mermaid_diagrams \in PipelineDiagrams
    /\ use_png \in BOOLEAN
    /\ cairosvg = "ok"
    /\ diagrams_by_index = EmptyDict
    /\ current_index = 0
    /\ m_pos = 1
    /\ m_out = <<>>
    /\ m_calls = <<>>
    /\ m_pc = "start"
    /\ e_fs \in [EmbedFiles -> {"file", "missing"}]
    /\ e_content = <<>> /\ e_touched = {} /\ e_pos = 1 /\ e_out = <<>>
    /\ e_calls = <<>> /\ e_pc = "idle"

PipelineNext ==
    \/ MermaidNoDiagrams
    \/ MermaidBegin
    \/ MermaidReplace
    \/ MermaidFinish
    \/ PipelineEmbed
    \/ EmbedReplace
    \/ EmbedFinish

----------------------------------------------------------------------------
\* Specifications: one per part of the program

Init ==
    /\ HandlerInit /\ MermaidIdle /\ EmbedIdle /\ ParagraphsIdle /\ ShapesIdle
    /\ ConcurrentIdle

Next == HandlerNext

Spec == Init /\ [][Next]_vars

InitMermaid ==
    /\ MermaidInit
    /\ EmbedIdle
    /\ HandlerIdle
    /\ ParagraphsIdle
    /\ ShapesIdle
    /\ ConcurrentIdle

SpecMermaid == InitMermaid /\ [][MermaidNext]_vars

InitEmbed ==
    /\ EmbedInit
    /\ MermaidIdle
    /\ HandlerIdle
    /\ ParagraphsIdle
    /\ ShapesIdle
    /\ ConcurrentIdle

SpecEmbed == InitEmbed /\ [][EmbedNext]_vars

InitParagraphs ==
    /\ ParagraphsInit
    /\ MermaidIdle
    /\ EmbedIdle
    /\ HandlerIdle
    /\ ShapesIdle
    /\ ConcurrentIdle

SpecParagraphs == InitParagraphs /\ [][ParagraphsNext]_vars

InitShapes ==
    /\ ShapesInit
    /\ MermaidIdle
    /\ EmbedIdle
    /\ HandlerIdle
    /\ ParagraphsIdle
    /\ ConcurrentIdle

SpecShapes == InitShapes /\ [][ShapesNext]_vars

InitConcurrent ==
    /\ ConcurrentInit
    /\ MermaidIdle
    /\ EmbedIdle
    /\ HandlerIdle
    /\ ParagraphsIdle
    /\ ShapesIdle

SpecConcurrent == InitConcurrent /\ [][ConcurrentNext]_vars

InitPipeline ==
    /\ PipelineInit
    /\ HandlerIdle
    /\ ParagraphsIdle
    /\ ShapesIdle
    /\ ConcurrentIdle

SpecPipeline == InitPipeline /\ [][PipelineNext]_vars

----------------------------------------------------------------------------
\* Properties of replace_mermaid_with_images

\* A mermaid fenced block, stated on the text alone: an opening fence with the
\* info string mermaid, only whitespace up to a newline j, and the first
\* closing fence after it at e-1.
IsMermaidBlock(c, i, e) ==
    /\ i + 1 <= Len(c) /\ e - 1 <= Len(c)
    /\ c[i] = "F" /\ c[i+1] = "M"
    /\ \E j \in (i+2)..(e-2) :
          /\ c[j] = "n"
          /\ \A k \in (i+2)..j : IsWs(c[k])
          /\ c[e-1] = "F"
          /\ \A k \in (j+1)..(e-2) : c[k] # "F"

\* the blocks in document order, leftmost first, not overlapping
RECURSIVE MermaidBlocks(_, _)
MermaidBlocks(c, pos) ==
    LET cands == {p \in (pos..Len(c)) \X (pos..(Len(c)+1)) : IsMermaidBlock(c, p[1], p[2])}
    IN IF cands = {} THEN <<>>
       ELSE LET first == CHOOSE p \in cands : \A q \in cands : p[1] <= q[1]
            IN <<first>> \o MermaidBlocks(c, first[2])

DescriptorsWithIndex(k) ==
    {mermaid_diagrams[n] : n \in {n \in DOMAIN mermaid_diagrams : mermaid_diagrams[n].index = k}}

\* re.sub's result so far: the text between the visited blocks and their
\* replacements, in order
RECURSIVE Assembled(_, _)
Assembled(calls, from) ==
    IF calls = <<>> THEN <<>>
    ELSE Slice(content, from, Head(calls).start - 1) \o Head(calls).text
            \o Assembled(Tail(calls), Head(calls).stop)

\* C1: the blocks are visited in document order with a zero-based counter; the
\* Kth block is replaced from a descriptor whose index is K when there is one
\* and is left verbatim otherwise; text outside the blocks is copied unchanged;
\* with no descriptors the output is the input.
C1_OrderStable ==
    LET bs == MermaidBlocks(content, 1)
    IN /\ (m_pc = "done" /\ mermaid_diagrams = <<>>) => m_out = content
       /\ m_pc \in {"scan", "done"} /\ mermaid_diagrams # <<>> =>
            /\ Len(m_calls) <= Len(bs)
            /\ m_pc = "done" => Len(m_calls) = Len(bs)
            /\ \A k \in 1..Len(m_calls) :
                 /\ m_calls[k].start = bs[k][1]
                 /\ m_calls[k].stop = bs[k][2]
                 /\ m_calls[k].idx = k - 1
                 /\ IF DescriptorsWithIndex(k - 1) = {}
                    THEN m_calls[k].text = Slice(content, bs[k][1], bs[k][2] - 1)
                    ELSE \E d \in DescriptorsWithIndex(k - 1) :
                            m_calls[k].text \in
                                {MermaidImage(u) : u \in {d.svg, d.png, PngOf(d.svg)}}
            /\ m_out = Assembled(m_calls, 1)
                        \o (IF m_pc = "done"
                            THEN Slice(content,
                                       IF m_calls = <<>> THEN 1
                                       ELSE m_calls[Len(m_calls)].stop, Len(content))
                            ELSE <<>>)

\* two blocks, a descriptor for index 1 only: the first block stays, the
\* second is replaced
C1_Witness ==
    /\ m_pc = "done"
    /\ Len(m_calls) >= 2
    /\ DescriptorsWithIndex(0) = {} /\ DescriptorsWithIndex(1) # {}
    /\ m_calls[1].text = Slice(content, m_calls[1].start, m_calls[1].stop - 1)
    /\ m_calls[2].text = MermaidImage("data:image/svg+xml;base64,A")

\* the uri the claim prescribes for descriptor d
PrescribedUri(d) ==
    IF ~use_png THEN d.svg
    ELSE IF d.png # "" THEN d.png
    ELSE LET r == svg_to_png(d.svg, cairosvg)
         IN IF r.exc = "" THEN r.val ELSE d.svg

\* C2: a block with a descriptor becomes exactly one image reference whose uri
\* is the svg when use_png is false, and otherwise the png if supplied, else
\* the converted svg, else (conversion failed) the svg.
C2_UriChoice ==
    \A k \in 1..Len(m_calls) :
        DescriptorsWithIndex(m_calls[k].idx) # {} =>
            \E d \in DescriptorsWithIndex(m_calls[k].idx) :
                m_calls[k].text = <<"![Mermaid Diagram](", PrescribedUri(d), ")">>

\* use_png, a descriptor with an svg only, and the conversion succeeds
C2_Witness ==
    /\ m_pc = "done" /\ use_png /\ cairosvg = "ok"
    /\ Len(m_calls) = 1
    /\ mermaid_diagrams = <<[index |-> 0, svg |-> "data:image/svg+xml;base64,GOOD",
                             png |-> ""]>>
    /\ m_calls[1].text = MermaidImage(PngOf("data:image/svg+xml;base64,GOOD"))

\* C6: with use_png and a descriptor that carries only an svg, the substitution
\* never raises, whatever the conversion does: the block becomes an image
\* reference, and the svg itself when the conversion failed.
C6_NeverAborts ==
    /\ m_pc # "raised"
    /\ \A k \in 1..Len(m_calls) :
         LET i == m_calls[k].idx
         IN (use_png /\ i \in DOMAIN diagrams_by_index
                     /\ diagrams_by_index[i].png = "") =>
               /\ Len(m_calls[k].text) = 3
               /\ m_calls[k].text[1] = "![Mermaid Diagram]("
               /\ m_calls[k].text[3] = ")"
               /\ svg_to_png(diagrams_by_index[i].svg, cairosvg).exc # "" =>
                    m_calls[k].text[2] = diagrams_by_index[i].svg

\* the conversion capability is not installed and the export still completes
C6_Witness ==
    /\ m_pc = "done" /\ use_png /\ cairosvg = "absent"
    /\ Len(m_calls) = 1
    /\ 0 \in DOMAIN diagrams_by_index
    /\ diagrams_by_index[0] = [svg |-> "data:image/svg+xml;base64,GOOD", png |-> ""]
    /\ m_out = MermaidImage("data:image/svg+xml;base64,GOOD")

----------------------------------------------------------------------------
\* Properties of embed_images_as_base64

SkippedPrefixes == {"http://", "https://", "data:"}

RECURSIVE EmbedAssembled(_, _)
EmbedAssembled(calls, from) ==
    IF calls = <<>> THEN <<>>
    ELSE Slice(e_content, from, Head(calls).start - 1) \o Head(calls).text
            \o EmbedAssembled(Tail(calls), Head(calls).stop)

\* C4: a reference whose path begins with http://, https:// or data: is
\* returned unchanged, title included, and no file is stat'ed or opened for
\* it; a text whose references are all of that kind comes back unchanged.
C4_RemoteIdentity ==
    /\ \A k \in 1..Len(e_calls) :
         (e_calls[k].path # <<>> /\ e_calls[k].path[1] \in SkippedPrefixes) =>
            /\ ~e_calls[k].raised
            /\ e_calls[k].text = Slice(e_content, e_calls[k].start, e_calls[k].stop - 1)
            /\ e_calls[k].touched = {}
    /\ e_pc = "done" =>
         /\ e_out = EmbedAssembled(e_calls, 1)
                     \o Slice(e_content,
                              IF e_calls = <<>> THEN 1 ELSE e_calls[Len(e_calls)].stop,
                              Len(e_content))
         /\ (\A k \in 1..Len(e_calls) : e_calls[k].path[1] \in SkippedPrefixes)
               => (e_out = e_content /\ e_touched = {})

\* a data: reference with a title passes through next to a local reference
\* that is embedded
C4_Witness ==
    /\ e_pc = "done"
    /\ Len(e_calls) = 2
    /\ e_calls[1].path[1] = "data:"
    /\ "\"" \in {e_calls[1].text[n] : n \in DOMAIN e_calls[1].text}
    /\ e_calls[2].text = EmbeddedImage(<<"a">>, "image/png", "a.png")
    /\ e_touched = {"a.png"}

\* C5: embedding never fails: whatever happens while a local reference is
\* resolved, checked, read or encoded, the function returns and a reference
\* that was not embedded is preserved unchanged.
C5_BestEffort ==
    /\ e_pc # "raised"
    /\ \A k \in 1..Len(e_calls) :
         ~e_calls[k].raised
         /\ (FsStatus(e_fs, JoinTokens(Unquote(e_calls[k].path))) # "file" =>
               e_calls[k].text = Slice(e_content, e_calls[k].start, e_calls[k].stop - 1))

----------------------------------------------------------------------------
\* Properties of the export handlers

C7_ArtifactOrError ==
    pc = "done" =>
        /\ finish_calls = 1
        /\ \/ /\ body = [kind |-> "artifact", value |-> handler]
              /\ status = 200
              /\ headers = [ct |-> ContentType(handler),
                            cd |-> ContentDisposition(handler, request.path)]
           \/ /\ body.kind = "error"
              /\ status \in {400, 404, 500}
              /\ headers = NoHeaders

\* C8: a temporary directory exists only inside the DOCX export's with block:
\* none is left when the response is finished, whichever step raised; at most
\* one is created per call, and none by a request answered 400 or 404 or by
\* another endpoint.
C8_TempDirScoped ==
    /\ temp_created <= 1
    /\ DOMAIN temp_dirs # {} => pc \in {"docx_stage", "docx_fixups", "docx_save"}
    /\ pc \in {"set_content_type", "set_content_disposition", "finish", "done"} =>
          temp_dirs = NoDirs
    /\ (handler # "docx" \/ status \in {400, 404}) => temp_created = 0

\* the conversion library raised after two images had been staged, and the
\* directory is gone when the 500 is sent
C8_Witness ==
    /\ pc = "done" /\ handler = "docx" /\ status = 500
    /\ body.value = "ConversionError"
    /\ temp_created = 1 /\ staged = 2
    /\ temp_dirs = NoDirs

\* files were staged in the directory while the export ran
C8_StagedFiles ==
    /\ pc = "docx_save" /\ temp_created = 1
    /\ temp_dirs[1] = {1, 2}

----------------------------------------------------------------------------
\* Properties of the DOCX fix-ups

\* an empty paragraph: a paragraph with no text and nothing else in it
IsEmptyParagraph(e) == e \in {"p_empty", "p_blank"}

\* the number of empty paragraphs the body starts with
RECURSIVE LeadingEmptyCount(_)
LeadingEmptyCount(b) ==
    IF b # <<>> /\ IsEmptyParagraph(Head(b)) THEN 1 + LeadingEmptyCount(Tail(b)) ELSE 0

\* C10: the loop ends; then no paragraph remains or the first one has text;
\* what was removed is exactly the run of empty paragraphs the body starts
\* with (no paragraph with content, no table, no later empty paragraph); a
\* second pass would remove nothing.
C10_LeadingOnly ==
    par_pc = "done" =>
        /\ \/ ParagraphPositions(doc_body) = {}
           \/ doc_body[Min(ParagraphPositions(doc_body))] = "p_text"
        /\ doc_body = Slice(doc_input, LeadingEmptyCount(doc_input) + 1, Len(doc_input))
        /\ ~HasLeadingEmpty(doc_body)

\* the part of C10 the loop does keep: it ends with no paragraph left or a
\* first paragraph that has text, tables and everything from the first text
\* paragraph on are kept in order, and a second pass removes nothing
C10_Postcondition ==
    /\ Len(doc_body) <= Len(doc_input)
    /\ par_pc = "done" =>
        /\ \/ ParagraphPositions(doc_body) = {}
           \/ doc_body[Min(ParagraphPositions(doc_body))] = "p_text"
        /\ ~HasLeadingEmpty(doc_body)

\* C9 as stated: an image within the usable area keeps its size; otherwise
\* both dimensions shrink, fit the usable area, and the aspect ratio is
\* preserved: new_width * height = new_height * width.
C9_ExactAspect ==
    shp_pc = "done" =>
        \A i \in DOMAIN shapes :
            LET w == shapes_input[i].width   h == shapes_input[i].height
                nw == shapes[i].width        nh == shapes[i].height
            IN IF w <= page_width /\ h <= page_height
               THEN nw = w /\ nh = h
               ELSE /\ nw <= w /\ nh <= h
                    /\ nw <= page_width /\ nh <= page_height
                    /\ ProductLeq(nw, h, nh, w) /\ ProductLeq(nh, w, nw, h)

\* C9 amended: as above, with the aspect ratio preserved up to the truncation
\* of each dimension to a whole EMU: new_width * height and new_height * width
\* differ by at most the larger original dimension, that is
\* new_width * height <= (new_height + 1) * width and
\* new_height * width <= (new_width + 1) * height.
C9_FitsWithinTruncation ==
    \A i \in 1..(shape_i - 1) :
        i \in DOMAIN shapes =>
            LET w == shapes_input[i].width   h == shapes_input[i].height
                nw == shapes[i].width        nh == shapes[i].height
            IN IF w <= page_width /\ h <= page_height
               THEN nw = w /\ nh = h
               ELSE /\ nw <= w /\ nh <= h
                    /\ nw <= page_width /\ nh <= page_height
                    /\ ProductLeq(nw, h, nh + 1, w)
                    /\ ProductLeq(nh, w, nw + 1, h)

\* an image too wide and too tall, bound by its height (ratio 2/3): the
\* width (page_width + 1) * 2 / 3 is truncated
C9_Witness ==
    /\ shp_pc = "done" /\ Len(shapes) = 1
    /\ shapes_input[1] = [width |-> page_width + 1, height |-> 3 * (page_height \div 2)]
    /\ shapes[1].height = page_height
    /\ shapes[1].width = MulDiv(page_width + 1, 2, 3).q
    /\ MulDiv(page_width + 1, 2, 3).r # 0

----------------------------------------------------------------------------
\* Properties of requests in flight together

\* re.sub with replace_mermaid from position pos and counter value idx, run
\* with nothing else in between
RECURSIVE SubstituteFrom(_, _, _, _, _)
SubstituteFrom(c, pos, idx, byIndex, usePng) ==
    LET st == MermaidSearch(c, pos)
    IN IF st = 0 THEN Slice(c, pos, Len(c))
       ELSE LET en == MermaidMatchEnd(c, st)
                rp == replace_mermaid(idx, byIndex, usePng, "ok", Slice(c, st, en - 1))
            IN Slice(c, pos, st - 1) \o rp.text
                   \o SubstituteFrom(c, en, NextIndex(idx), byIndex, usePng)

\* what replace_mermaid_with_images returns for a request that runs alone
RunAlone(req) ==
    IF req.diagrams = <<>> THEN req.content
    ELSE SubstituteFrom(req.content, 1, 0,
                        BuildDiagramsByIndex(req.diagrams, EmptyDict),
                        UsePng(req.handler))

\* C11: whatever the interleaving of the requests in flight, every request
\* ends with the output it produces when run alone; the diagram counter of an
\* invocation starts at 0 and counts that invocation's blocks only; the
\* temporary directories of two DOCX exports are distinct, and a request's
\* staged files stay in place until its own cleanup.
C11_Reentrant ==
    \A r \in InFlight :
        /\ c_pc[r] = "scan" => c_cells[CounterCell(r)] = c_calls[r]
        /\ c_pc[r] \in {"tempdir", "stage", "convert", "cleanup", "done"} =>
              c_out[r] = RunAlone(c_req[r])
        /\ c_pc[r] \in {"stage", "convert", "cleanup"} =>
              /\ c_dir[r] \in DOMAIN c_tmp
              /\ \A q \in InFlight \ {r} :
                    c_pc[q] \in {"stage", "convert", "cleanup"} => c_dir[q] # c_dir[r]
        /\ c_pc[r] \in {"convert", "cleanup"} =>
              StagedFiles(c_out[r]) \subseteq c_tmp[c_dir[r]]
        /\ (c_pc[r] = "done" /\ c_req[r].handler = "docx") =>
              c_read[r] = StagedFiles(RunAlone(c_req[r]))

\* request 1 is between its two blocks while request 2, a DOCX export of the
\* same document, has staged the same images in a directory of its own
C11_Witness ==
    /\ c_req[1].content = c_req[2].content
    /\ c_req[1].diagrams # <<>> /\ c_req[2].diagrams = c_req[1].diagrams
    /\ c_req[2].handler = "docx"
    /\ c_pc[1] = "scan" /\ c_calls[1] = 1
    /\ MermaidSearch(c_req[1].content, c_pos[1]) # 0
    /\ c_pc[2] = "convert" /\ c_calls[2] = 2
    /\ Cardinality(c_tmp[c_dir[2]]) = 2

----------------------------------------------------------------------------
\* Properties of substitution followed by embedding

\* the files named by the image references written in the source document
SourceNamedFiles ==
    LET c == EmbedTokens(content)
    IN {JoinTokens(Unquote(ImageMatchAt(c, i).path)) :
            i \in {j \in 1..Len(c) : /\ ImageMatchAt(c, j).end # 0
                                     /\ ~StartsWithRemoteOrData(ImageMatchAt(c, j).path)}}

\* the calls of replace_image on a reference that substitution wrote
SubstitutedCalls ==
    {k \in DOMAIN e_calls :
        e_content[e_calls[k].start + 2] = "Mermaid Diagram"}

\* C12: embedding starts only after substitution has returned; it looks up only
\* files named by image references of the source document, never a file named
\* by a descriptor string; and every reference substitution wrote reaches the
\* renderer unchanged.
C12_SubstitutedUntouched ==
    /\ e_pc # "idle" => m_pc = "returned"
    /\ e_touched \subseteq SourceNamedFiles
    /\ \A k \in SubstitutedCalls :
          /\ ~e_calls[k].raised
          /\ e_calls[k].text = Slice(e_content, e_calls[k].start, e_calls[k].stop - 1)

====
